---- MODULE Spec2Model ----
(***************************************************************************)
(* Model of src/gym_agent/agent.py: the equipment lookup tool              *)
(* (equipments_json_loader, equipment_selector) and the agent pipeline     *)
(* (workout_decoder -> ParallelPipeline{workout_planner, equipments_agent})*)
(* together with the history persistence helpers the specification         *)
(* describes.                                                              *)
(*                                                                         *)
(* A Python str is a tuple of one-character strings, so that lower() and   *)
(* strip() are computed character by character.                            *)
(***************************************************************************)
EXTENDS Integers, Sequences, FiniteSets, TLC

VARIABLES
    file,           \* data/equipments_db.json on disk
    equipments_db,  \* the value bound at agent.py:36 by the latest call
    muscle_arg,     \* the argument of the latest equipment_selector call
    result,         \* what the latest equipment_selector call did
    prev_arg,       \* the argument of the call before a "variant" call
    prev_result,    \* what the call before the latest call did (a write of
                    \* the file keeps the latest call only)
    op,             \* the latest step: "none", "call", "variant", "write"
    session,        \* the session state of the agent run: output_key -> value
    pc,             \* where each agent of the pipeline is
    step_in,        \* the decoder_output each parallel agent was started with
    llm,            \* what the model behind the agents answers in this run
    finished,       \* the agents that have finished, in that order
    history_file,   \* the workout history file on disk
    appended,       \* the entries appended so far, in order
    intact,         \* nobody but append has touched the history file
    loaded_history,         \* what the latest load returned
    avoid,          \* what the latest run of the exercise filter returned
    hop             \* the latest history step

selVars == <<file, equipments_db, muscle_arg, result, prev_arg, prev_result, op>>
pipeVars == <<session, pc, step_in, llm, finished>>
histVars == <<history_file, appended, intact, loaded_history, avoid, hop>>

----------------------------------------------------------------------------
(* Bounds *)

\* longest muscle string passed to equipment_selector
MaxLen == 3
\* most entries appended to the history file
MaxAppends == 5

----------------------------------------------------------------------------
(* Python strings *)

Lower == {"a"}
Upper == {"A"}
Whitespace == {" "}
Chars == Lower \cup Upper \cup Whitespace

StringsUpTo(n) == UNION {[1..k -> Chars] : k \in 0..n}

MuscleStrings == StringsUpTo(MaxLen)

\* str.lower() on one character
LowerChar(ch) ==
    CASE ch = "A" -> "a"
      [] ch = "B" -> "b"
      [] ch = "E" -> "e"
      [] ch = "R" -> "r"
      [] OTHER -> ch

\* the other case of a letter (a letter's case toggled), used to build variants
SwapCaseChar(ch) == IF ch = "A" THEN "a" ELSE IF ch = "a" THEN "A" ELSE ch

\* str.lower()
StrLower(s) == [i \in 1..Len(s) |-> LowerChar(s[i])]

RECURSIVE LStrip(_)
\* str.lstrip()
LStrip(s) == IF s # <<>> /\ Head(s) \in Whitespace THEN LStrip(Tail(s)) ELSE s

RECURSIVE RStrip(_)
\* str.rstrip()
RStrip(s) ==
    IF s # <<>> /\ s[Len(s)] \in Whitespace
    THEN RStrip(SubSeq(s, 1, Len(s) - 1))
    ELSE s

\* str.strip()
StrStrip(s) == RStrip(LStrip(s))

\* agent.py:40 without its strip(): a normalisation that forgets the whitespace
NormalizeNoStrip(s) == StrLower(s)

\* agent.py:40   muscle = muscle.lower().strip()
Normalize(s) == StrStrip(StrLower(s))

\* `sub in s` for two Python strings
IsSubstring(sub, s) ==
    \E i \in 0..(Len(s) - Len(sub)) : SubSeq(s, i + 1, i + Len(sub)) = sub

----------------------------------------------------------------------------
(* JSON values that the equipment file can hold *)

NoFields == <<>>

\* an object {"required_equipment": [...], "alternatives": [...]}
RecBoth ==
    [kind |-> "object",
     fields |-> ("required_equipment" :> <<"Barbell", "Bench">>)
                @@ ("alternatives" :> <<"Resistance Bands">>)]
\* an object with only required_equipment
RecReqOnly ==
    [kind |-> "object", fields |-> ("required_equipment" :> <<"Pull-up Bar">>)]
\* an object {}
RecNoFields == [kind |-> "object", fields |-> NoFields]
\* a record that is a JSON array instead of an object
RecArray == [kind |-> "array", fields |-> NoFields]

NoTable == <<>>
NoItems == {}

JsonObject(t) == [kind |-> "object", table |-> t, items |-> NoItems, text |-> <<>>]
JsonArray(xs) == [kind |-> "array", table |-> NoTable, items |-> xs, text |-> <<>>]
JsonString(s) == [kind |-> "string", table |-> NoTable, items |-> NoItems, text |-> s]
JsonNumber == [kind |-> "number", table |-> NoTable, items |-> NoItems, text |-> <<>>]
JsonNull == [kind |-> "null", table |-> NoTable, items |-> NoItems, text |-> <<>>]

EmptyTable == JsonObject(NoTable)

\* the tables the file can hold: keys are muscle names as written in the file
Tables ==
    { NoTable,
      (<<"a">> :> RecBoth),
      (<<"a">> :> RecNoFields) @@ (<<>> :> RecBoth) @@ (<<"A">> :> RecBoth)
          @@ (<<"a", " ", "a">> :> RecReqOnly),
      (<<"a">> :> RecArray) }

OnDisk(v) == [state |-> "json", value |-> v]
\* no file at the path
Missing == [state |-> "missing", value |-> JsonNull]
\* a file that open() or read() refuses (permissions, a directory, bad encoding)
Unreadable == [state |-> "unreadable", value |-> JsonNull]
\* a file whose text is not JSON
InvalidJson == [state |-> "invalid", value |-> JsonNull]

Files ==
    {Missing, Unreadable, InvalidJson}
    \cup {OnDisk(JsonObject(t)) : t \in Tables}
    \cup {OnDisk(JsonArray({<<"a">>})), OnDisk(JsonNumber)}

----------------------------------------------------------------------------
(* equipments_json_loader and equipment_selector *)

Returned(v) == [raised |-> "none", value |-> v]
Raised(e) == [raised |-> e, value |-> JsonNull]

\* agent.py:13-23: json.load of the file; {} on FileNotFoundError and on
\* json.JSONDecodeError; any other exception of open()/read() is not caught
equipments_json_loader(f) ==
    CASE f.state = "json" -> Returned(f.value)
      [] f.state = "missing" -> Returned(EmptyTable)
      [] f.state = "invalid" -> Returned(EmptyTable)
      [] OTHER -> Raised("OSError")

NoValue == [status |-> "", muscle |-> <<>>, required |-> <<>>, alternatives |-> <<>>]
Returns(v) == [raised |-> "none", value |-> v]
Raises(e) == [raised |-> e, value |-> NoValue]
NoResult == Raises("nocall")

\* agent.py:46
DefaultRequired == <<"Dumbbells", "Resistance bands">>
\* agent.py:47
DefaultAlternatives == <<"Bodyweight exercises", "Household items">>

\* agent.py:42   `muscle not in equipments_db`, by the type json.load returned:
\* "yes"/"no", or "TypeError" for a value that is no container
Contains(db, m) ==
    CASE db.kind = "object" -> IF m \in DOMAIN db.table THEN "yes" ELSE "no"
      [] db.kind = "array" -> IF m \in db.items THEN "yes" ELSE "no"
      [] db.kind = "string" -> IF IsSubstring(m, db.text) THEN "yes" ELSE "no"
      [] OTHER -> "TypeError"

\* dict.get(key, [])
DictGet(d, key) == IF key \in DOMAIN d THEN d[key] ELSE <<>>

\* a hit that returns the alternatives for both fields
HitSwapped(db, m) ==
    LET equipments == db.table[m] IN
    IF equipments.kind # "object" THEN Raises("AttributeError")
    ELSE Returns([status |-> "success", muscle |-> m,
                  required |-> DictGet(equipments.fields, "alternatives"),
                  alternatives |-> DictGet(equipments.fields, "alternatives")])

\* agent.py:50-56: equipments_db[muscle] and the two .get calls
Hit(db, m) ==
    LET equipments == db.table[m] IN
    IF equipments.kind # "object" THEN Raises("AttributeError")
    ELSE Returns([status |-> "success", muscle |-> m,
                  required |-> DictGet(equipments.fields, "required_equipment"),
                  alternatives |-> DictGet(equipments.fields, "alternatives")])

\* a miss that forgets the default equipment
MissNoDefaults(m) ==
    Returns([status |-> "not_found", muscle |-> m,
             required |-> <<>>, alternatives |-> <<>>])

\* agent.py:43-48
Miss(m) ==
    Returns([status |-> "not_found", muscle |-> m,
             required |-> DefaultRequired, alternatives |-> DefaultAlternatives])

\* agent.py:40-56 on the value the loader returned
Lookup(db, raw) ==
    LET muscle == Normalize(raw)
        found == Contains(db, muscle)
    IN  CASE found = "TypeError" -> Raises("TypeError")
          [] found = "no" -> Miss(muscle)
          [] db.kind # "object" -> Raises("TypeError")
          [] OTHER -> Hit(db, muscle)

\* agent.py:26-56 on what the loader did
SelectorOn(loaded, raw) ==
    IF loaded.raised # "none" THEN Raises(loaded.raised)
    ELSE Lookup(loaded.value, raw)

\* agent.py:26-56: equipment_selector(muscle) with the file as it is
equipment_selector(f, raw) == SelectorOn(equipments_json_loader(f), raw)

----------------------------------------------------------------------------
(* The lookup tool called again and again while the file changes *)

\* the strings that differ from s in the case of one letter, or by one
\* whitespace character added or removed at either end
Variants(s) ==
    {[s EXCEPT ![i] = SwapCaseChar(s[i])] : i \in {j \in 1..Len(s) : s[j] \notin Whitespace}}
    \cup {<<w>> \o s : w \in Whitespace}
    \cup {s \o <<w>> : w \in Whitespace}
    \cup (IF s # <<>> /\ Head(s) \in Whitespace THEN {Tail(s)} ELSE {})
    \cup (IF s # <<>> /\ s[Len(s)] \in Whitespace
          THEN {SubSeq(s, 1, Len(s) - 1)} ELSE {})

\* a loader that keeps the table of the first call
LoadedDbCached ==
    IF op = "none" THEN equipments_json_loader(file) ELSE equipments_db

\* agent.py:36-38: the table is read from the file by every call
LoadedDb == equipments_json_loader(file)

SelInit ==
    /\ file \in Files
    /\ equipments_db = Raised("nocall")
    /\ muscle_arg = <<>>
    /\ result = NoResult
    /\ prev_arg = <<>>
    /\ prev_result = NoResult
    /\ op = "none"

\* the body of one call equipment_selector(raw)
Select(raw) ==
    /\ equipments_db' = LoadedDb
    /\ muscle_arg' = raw
    /\ result' = SelectorOn(equipments_db', raw)
    /\ prev_result' = result
    /\ UNCHANGED file

\* equipment_selector(raw), any muscle string
CallSelector(raw) ==
    /\ Select(raw)
    /\ prev_arg' = <<>>
    /\ op' = "call"

\* equipment_selector(v) right after equipment_selector(muscle_arg), the file
\* untouched in between, v a variant of muscle_arg
CallVariant(v) ==
    /\ op \in {"call", "variant"}
    /\ Len(v) <= MaxLen
    /\ Select(v)
    /\ prev_arg' = muscle_arg
    /\ op' = "variant"

\* somebody else rewrites, removes or damages data/equipments_db.json
WriteFile(f) ==
    /\ f # file
    /\ file' = f
    /\ op' = "write"
    /\ prev_arg' = <<>>
    /\ prev_result' = NoResult
    /\ UNCHANGED <<equipments_db, muscle_arg, result>>


----------------------------------------------------------------------------
(* The agents and the pipeline *)

\* agent.py:64
Decoder == "workout_decoder"
\* agent.py:178
Planner == "workout_planner"
\* agent.py:313
Equipment == "equipments_agent"
Agents == {Decoder, Planner, Equipment}

\* agent.py:169
workout_decoder_output_key == "decoder_output"
\* agent.py:304
workout_planner_output_key == "workout_planned"
\* agent.py:413
equipments_agent_output_key == "equipment_planned"

OutputKeys == {"decoder_output", "workout_planned", "equipment_planned"}

\* agent.py:131-136, 196-201: the four fields of a complete decoder_output
DecoderFields == {"muscle", "goal", "training_style", "experience_level"}

Value(k, fs, m, st) == [kind |-> k, fields |-> fs, muscle |-> m, status |-> st]
Absent == Value("absent", {}, <<>>, "")
NoReply == Value("empty", {}, <<>>, "")

\* what workout_decoder can answer: the JSON with all four fields, a JSON
\* with fields missing, or its greeting / a question back to the user
DecoderReplies ==
    {Value("json", DecoderFields, m, "") : m \in {<<"a">>, <<"A", " ">>, <<"a", "a">>}}
    \cup {Value("json", {"muscle"}, <<"a">>, ""),
          Value("json", {"goal", "training_style", "experience_level"}, <<>>, ""),
          Value("text", {}, <<>>, "")}

\* agent.py:195-203, 330-338: "a COMPLETE JSON with ALL 4 fields"
Complete(d) == d.kind = "json" /\ d.fields = DecoderFields

\* The model behind the agents is free to follow the EXECUTION GATE of its
\* instruction or not, and to call the tool or not; nothing in the pipeline
\* checks it.  One run fixes these choices.
LlmChoices ==
    [decoder_reply : DecoderReplies,
     planner_obeys_gate : BOOLEAN,
     equipment_obeys_gate : BOOLEAN,
     equipment_calls_tool : BOOLEAN]

\* a root pipeline that starts the parallel stage first
root_sub_agents_swapped == <<{Planner, Equipment}, {Decoder}>>

\* agent.py:431-437 with 422-428: SequentialAgent runs its sub_agents in
\* order; the second one is the ParallelAgent of planner and equipment agent
root_sub_agents == <<{Decoder}, {Planner, Equipment}>>

StageOf(a) == CHOOSE i \in 1..Len(root_sub_agents) : a \in root_sub_agents[i]

\* SequentialAgent: an agent runs once every earlier stage has finished;
\* ParallelAgent: the agents of one stage do not wait for each other
CanStart(a) ==
    /\ pc[a] = "idle"
    /\ \A i \in 1..(StageOf(a) - 1) : \A b \in root_sub_agents[i] : pc[b] = "done"

\* an exception that left a tool ends the run: no agent takes another step
Aborted == \E a \in Agents : pc[a] = "failed"

\* LlmAgent with an output_key: the final answer, if it has any text, is
\* stored under the key
SaveOutput(sess, key, reply) ==
    IF reply = NoReply THEN sess ELSE [sess EXCEPT ![key] = reply]

\* workout_planner's answer to the decoder_output it was given
PlannerReply(d) ==
    IF llm.planner_obeys_gate /\ ~Complete(d) THEN NoReply
    ELSE Value("plan", {}, d.muscle, "")

\* whether equipments_agent goes on to its task for this decoder_output
EquipmentProceeds(d) == ~(llm.equipment_obeys_gate /\ ~Complete(d))

\* agent.py:343-344, 412: the agent calls equipment_selector(muscle)
EquipmentCallsTool(d) == EquipmentProceeds(d) /\ llm.equipment_calls_tool

\* equipments_agent's answer, from the tool's result when it called the tool
EquipmentReply(d, res) ==
    IF ~EquipmentProceeds(d) THEN NoReply
    ELSE IF res.raised = "none"
         THEN Value("equipment", {}, res.value.muscle, res.value.status)
         ELSE Value("equipment", {}, d.muscle, "no_tool")

PipeIdle ==
    /\ session = [k \in OutputKeys |-> Absent]
    /\ pc = [a \in Agents |-> "idle"]
    /\ step_in = [a \in Agents |-> Absent]
    /\ llm = [decoder_reply |-> NoReply, planner_obeys_gate |-> TRUE,
              equipment_obeys_gate |-> TRUE, equipment_calls_tool |-> TRUE]
    /\ finished = <<>>

----------------------------------------------------------------------------
(* The workout history file, its load / append / save helpers and the      *)
(* exercise filter, as the specification describes them (sections 3, 4.2,  *)
(* 4.3): the source file has no code for them.                             *)

\* the filter reads the last 3 entries
HistoryWindow == 3

Newline == "\n"

\* "Exercise A\nRest"
WorkoutA ==
    <<"E", "x", "e", "r", "c", "i", "s", "e", " ", "A", Newline, "R", "e", "s", "t">>
\* "- B\nexercise"
WorkoutB ==
    <<"-", " ", "B", Newline, "e", "x", "e", "r", "c", "i", "s", "e">>
\* "Rest\nA-B"
WorkoutC == <<"R", "e", "s", "t", Newline, "A", "-", "B">>

Entry(m, w) ==
    [muscle |-> m, goal |-> "strength", training_style |-> "circuits",
     experience_level |-> "beginner", workout |-> w]

Entries == {Entry("chest", WorkoutA), Entry("back", WorkoutB), Entry("legs", WorkoutC)}
NoEntry == Entry("", <<>>)

\* the text of a JSON file, token by token
Tok(t, e) == [t |-> t, e |-> e]
Punct(t) == Tok(t, NoEntry)

RECURSIVE SerializeItems(_)
SerializeItems(list) ==
    IF list = <<>> THEN <<>>
    ELSE IF Len(list) = 1 THEN <<Tok("object", list[1])>>
    ELSE <<Tok("object", list[1]), Punct(",")>> \o SerializeItems(Tail(list))

\* json.dump of a list of entries
Serialize(list) == <<Punct("[")>> \o SerializeItems(list) \o <<Punct("]")>>

RECURSIVE ParseItems(_)
\* the items between the brackets: [ok, list]
ParseItems(toks) ==
    IF toks = <<>> THEN [ok |-> FALSE, list |-> <<>>]
    ELSE IF toks[1].t # "object" THEN [ok |-> FALSE, list |-> <<>>]
    ELSE IF Len(toks) = 1 THEN [ok |-> TRUE, list |-> <<toks[1].e>>]
    ELSE IF toks[2].t # "," THEN [ok |-> FALSE, list |-> <<>>]
    ELSE LET rest == ParseItems(SubSeq(toks, 3, Len(toks))) IN
         [ok |-> rest.ok, list |-> <<toks[1].e>> \o rest.list]

\* json.load of a text that must hold an array: [ok, list]
ParseArray(toks) ==
    IF Len(toks) < 2 \/ toks[1].t # "[" \/ toks[Len(toks)].t # "]"
    THEN [ok |-> FALSE, list |-> <<>>]
    ELSE IF Len(toks) = 2 THEN [ok |-> TRUE, list |-> <<>>]
    ELSE ParseItems(SubSeq(toks, 2, Len(toks) - 1))

AbsentFile == [exists |-> FALSE, text |-> <<>>]
FileWith(toks) == [exists |-> TRUE, text |-> toks]

\* a text that is not JSON, and a JSON text that holds an object, not an array
DamagedFiles ==
    {AbsentFile,
     FileWith(<<Punct("["), Tok("object", Entry("chest", WorkoutA))>>),
     FileWith(<<Tok("object", Entry("chest", WorkoutA))>>)}

\* load: the array in the file; the empty array on any error
Load(f) ==
    IF ~f.exists THEN <<>>
    ELSE LET parsed == ParseArray(f.text) IN
         IF parsed.ok THEN parsed.list ELSE <<>>

\* an append that overwrites the history with the new entry
AppendedFileOverwrite(f, e) == FileWith(Serialize(<<e>>))

\* append: load, push one entry, save
AppendedFile(f, e) == FileWith(Serialize(Append(Load(f), e)))

\* the entries the filter looks at, taken from the front
LastEntriesFromFront(h) ==
    SubSeq(h, 1, IF Len(h) < HistoryWindow THEN Len(h) ELSE HistoryWindow)

\* history[-3:]
LastEntries(h) ==
    SubSeq(h, IF Len(h) > HistoryWindow THEN Len(h) - HistoryWindow + 1 ELSE 1, Len(h))

RECURSIVE SplitLines(_)
\* text.split("\n")
SplitLines(text) ==
    IF \A i \in 1..Len(text) : text[i] # Newline THEN <<text>>
    ELSE LET k == CHOOSE i \in 1..Len(text) :
                     text[i] = Newline /\ \A j \in 1..(i - 1) : text[j] # Newline
         IN  <<SubSeq(text, 1, k - 1)>> \o SplitLines(SubSeq(text, k + 1, Len(text)))

ExerciseWord == <<"E", "x", "e", "r", "c", "i", "s", "e">>

\* "Exercise" in line or "-" in line
IsExerciseLine(line) == IsSubstring(ExerciseWord, line) \/ IsSubstring(<<"-">>, line)

RECURSIVE KeepExerciseLines(_)
KeepExerciseLines(lines) ==
    IF lines = <<>> THEN <<>>
    ELSE (IF IsExerciseLine(Head(lines)) THEN <<StrLower(Head(lines))>> ELSE <<>>)
         \o KeepExerciseLines(Tail(lines))

\* the lines of one entry's workout that the filter collects, lower-cased
EntryLines(e) == KeepExerciseLines(SplitLines(e.workout))

RECURSIVE CollectLines(_)
CollectLines(h) ==
    IF h = <<>> THEN <<>> ELSE EntryLines(Head(h)) \o CollectLines(Tail(h))

\* the filter on a history list
FilterHistory(h) == CollectLines(LastEntries(h))

\* the filter on the file
FilterExercises(f) == FilterHistory(Load(f))

HistIdle ==
    /\ history_file = AbsentFile
    /\ appended = <<>>
    /\ intact = TRUE
    /\ loaded_history = <<>>
    /\ avoid = <<>>
    /\ hop = "none"

\* the history starts absent or empty
HistInit ==
    /\ history_file \in {AbsentFile, FileWith(Serialize(<<>>))}
    /\ appended = <<>>
    /\ intact = TRUE
    /\ loaded_history = <<>>
    /\ avoid = <<>>
    /\ hop = "none"

\* append(entry) by the single writer
AppendEntry(e) ==
    /\ Len(appended) < MaxAppends
    /\ history_file' = AppendedFile(history_file, e)
    /\ appended' = Append(appended, e)
    /\ hop' = "append"
    /\ UNCHANGED <<intact, loaded_history, avoid>>

\* load()
LoadHistory ==
    /\ loaded_history' = Load(history_file)
    /\ hop' = "load"
    /\ UNCHANGED <<history_file, appended, intact, avoid>>

\* the exercise filter
RunFilter ==
    /\ avoid' = FilterExercises(history_file)
    /\ hop' = "filter"
    /\ UNCHANGED <<history_file, appended, intact, loaded_history>>

\* the file is removed, truncated by a crashed write, or replaced
DamageFile(f) ==
    /\ intact
    /\ history_file' = f
    /\ intact' = FALSE
    /\ hop' = "damage"
    /\ UNCHANGED <<appended, loaded_history, avoid>>

HistNext ==
    \/ \E e \in Entries : AppendEntry(e) /\ UNCHANGED <<selVars, pipeVars>>
    \/ LoadHistory /\ UNCHANGED <<selVars, pipeVars>>
    \/ RunFilter /\ UNCHANGED <<selVars, pipeVars>>
    \/ \E f \in DamagedFiles : DamageFile(f) /\ UNCHANGED <<selVars, pipeVars>>

SelNext ==
    \/ \E raw \in MuscleStrings :
          CallSelector(raw) /\ UNCHANGED <<pipeVars, histVars>>
    \/ \E v \in Variants(muscle_arg) :
          CallVariant(v) /\ UNCHANGED <<pipeVars, histVars>>
    \/ \E f \in Files : WriteFile(f) /\ UNCHANGED <<pipeVars, histVars>>

vars == <<selVars, pipeVars, histVars>>

SelSpecInit == SelInit /\ PipeIdle /\ HistIdle

SpecSel == SelSpecInit /\ [][SelNext]_vars

Called == op \in {"call", "variant"}

\* the files the run can find at data/equipments_db.json
PipeInit ==
    /\ SelInit
    /\ session = [k \in OutputKeys |-> Absent]
    /\ pc = [a \in Agents |-> "idle"]
    /\ step_in = [a \in Agents |-> Absent]
    /\ llm \in LlmChoices
    /\ finished = <<>>
    /\ HistIdle

\* an agent is started with the conversation so far
Start(a) ==
    /\ ~Aborted
    /\ CanStart(a)
    /\ pc' = [pc EXCEPT ![a] = "running"]
    /\ step_in' = [step_in EXCEPT ![a] = session["decoder_output"]]
    /\ UNCHANGED <<session, llm, finished, selVars>>

\* agent.py:63-170: workout_decoder answers; output_key decoder_output
DecoderFinish ==
    /\ ~Aborted
    /\ pc[Decoder] = "running"
    /\ session' = SaveOutput(session, workout_decoder_output_key, llm.decoder_reply)
    /\ pc' = [pc EXCEPT ![Decoder] = "done"]
    /\ finished' = Append(finished, Decoder)
    /\ UNCHANGED <<step_in, llm, selVars>>

\* agent.py:177-305: workout_planner answers; output_key workout_planned
PlannerFinish ==
    /\ ~Aborted
    /\ pc[Planner] = "running"
    /\ session' = SaveOutput(session, workout_planner_output_key,
                             PlannerReply(step_in[Planner]))
    /\ pc' = [pc EXCEPT ![Planner] = "done"]
    /\ finished' = Append(finished, Planner)
    /\ UNCHANGED <<step_in, llm, selVars>>

\* agent.py:344, 412: equipments_agent calls the tool with the muscle of the
\* decoder_output; an exception of the tool is not caught by anything
EquipmentTool ==
    /\ ~Aborted
    /\ pc[Equipment] = "running"
    /\ EquipmentCallsTool(step_in[Equipment])
    /\ CallSelector(step_in[Equipment].muscle)
    /\ pc' = [pc EXCEPT ![Equipment] =
                 IF result'.raised = "none" THEN "tool_done" ELSE "failed"]
    /\ UNCHANGED <<session, step_in, llm, finished>>

\* agent.py:312-414: equipments_agent answers; output_key equipment_planned
EquipmentFinish ==
    /\ ~Aborted
    /\ \/ pc[Equipment] = "tool_done"
       \/ pc[Equipment] = "running" /\ ~EquipmentCallsTool(step_in[Equipment])
    /\ session' = SaveOutput(session, equipments_agent_output_key,
                             EquipmentReply(step_in[Equipment], result))
    /\ pc' = [pc EXCEPT ![Equipment] = "done"]
    /\ finished' = Append(finished, Equipment)
    /\ UNCHANGED <<step_in, llm, selVars>>

PipeNext ==
    \/ \E a \in Agents : Start(a) /\ UNCHANGED histVars
    \/ DecoderFinish /\ UNCHANGED histVars
    \/ PlannerFinish /\ UNCHANGED histVars
    \/ EquipmentTool /\ UNCHANGED histVars
    \/ EquipmentFinish /\ UNCHANGED histVars

SpecPipe == PipeInit /\ [][PipeNext]_vars

HistSpecInit == SelInit /\ file = Missing /\ PipeIdle /\ HistInit

SpecHist == HistSpecInit /\ [][HistNext]_vars

\* the run is over: every agent has finished, or an exception ended it
RunEnded == Aborted \/ \A a \in Agents : pc[a] = "done"

----------------------------------------------------------------------------
(* Claims about the equipment lookup *)

IsTable(f) == f.state = "json" /\ f.value.kind = "object"

\* C1: two muscle strings that differ only in letter case and in leading or
\* trailing whitespace get the same result from equipment_selector while the
\* file stays the same: same status, muscle, required and alternatives (the
\* variants are built one edit at a time, so any two such strings are linked
\* by a chain of calls with equal results).
C1_NormalizesIdentically ==
    op = "variant" =>
        /\ result = prev_result
        /\ result.raised = "none" =>
              \A i \in 1..Len(result.value.muscle) :
                  /\ result.value.muscle[i] \notin Upper
                  /\ i \in {1, Len(result.value.muscle)} =>
                        result.value.muscle[i] \notin Whitespace

\* " A " called right after " a ", both found under the key "a"
C1_Witness ==
    /\ op = "variant"
    /\ prev_arg = <<" ", "a", " ">>
    /\ muscle_arg = <<" ", "A", " ">>
    /\ result.raised = "none"
    /\ result.value.status = "success"
    /\ result.value.muscle = <<"a">>
    /\ result = prev_result

\* the normalized muscle is not a key: the file is missing, or holds an
\* object (empty or not) without that key
C2_MissCase ==
    \/ file.state = "missing"
    \/ IsTable(file) /\ Normalize(muscle_arg) \notin DOMAIN file.value.table

C3_HitCopiesRecord ==
    (/\ Called
     /\ IsTable(file)
     /\ Normalize(muscle_arg) \in DOMAIN file.value.table
     /\ file.value.table[Normalize(muscle_arg)].kind = "object") =>
        LET rec == file.value.table[Normalize(muscle_arg)].fields IN
        /\ result.raised = "none"
        /\ result.value.status = "success"
        /\ result.value.muscle = Normalize(muscle_arg)
        /\ result.value.muscle \in DOMAIN file.value.table
        /\ result.value.required =
              IF "required_equipment" \in DOMAIN rec
              THEN rec["required_equipment"] ELSE <<>>
        /\ result.value.alternatives =
              IF "alternatives" \in DOMAIN rec THEN rec["alternatives"] ELSE <<>>
        /\ (muscle_arg = <<"A", " ">> => result.value.muscle = <<"a">>)

\* the scenario of the specification: {"a": {required_equipment: [Barbell,
\* Bench], alternatives: [Resistance Bands]}} and the muscle "A "
C3_Witness ==
    /\ Called
    /\ file = OnDisk(JsonObject(<<"a">> :> RecBoth))
    /\ muscle_arg = <<"A", " ">>
    /\ result = Returns([status |-> "success", muscle |-> <<"a">>,
                         required |-> <<"Barbell", "Bench">>,
                         alternatives |-> <<"Resistance Bands">>])

\* C4: equipment_selector never raises: on a file that is missing, unreadable,
\* not JSON, or JSON whose top-level value or whose record for the muscle is
\* not an object, the call returns the not_found default.
C4_NeverRaises ==
    Called =>
        /\ result.raised = "none"
        /\ (\/ file.state # "json"
            \/ file.value.kind # "object"
            \/ (/\ Normalize(muscle_arg) \in DOMAIN file.value.table
                /\ file.value.table[Normalize(muscle_arg)].kind # "object"))
           => result = Miss(Normalize(muscle_arg))

\* C6: every call's result is the result for the file as it is at that call,
\* whatever earlier calls have read, and no call changes the file.
C6_LoadedFresh ==
    [][op' \in {"call", "variant"} =>
          /\ file' = file
          /\ result' = equipment_selector(file, muscle_arg')
          /\ equipments_db' = equipments_json_loader(file)]_vars

\* the same muscle found by one call and, after the file was rewritten, not
\* found by the next
C6_Witness ==
    /\ op = "call"
    /\ prev_result.raised = "none"
    /\ prev_result.value.status = "success"
    /\ result.raised = "none"
    /\ result.value.status = "not_found"
    /\ result.value.muscle = prev_result.value.muscle

----------------------------------------------------------------------------
(* Claims about the pipeline *)

AllDone == \A a \in Agents : pc[a] = "done"

NoDuplicates(seq) == \A i, j \in 1..Len(seq) : seq[i] = seq[j] => i = j

\* C5 as stated: a run executes decode, then plan and equipment in parallel,
\* then validate, persist, recommend and aggregate, each once, in that order.
C5_FullDag ==
    /\ \A a \in {Planner, Equipment} : pc[a] # "idle" => pc[Decoder] = "done"
    /\ AllDone =>
          /\ Len(finished) = 7
          /\ finished[1] = Decoder
          /\ {finished[2], finished[3]} = {Planner, Equipment}
          /\ SubSeq(finished, 4, 7) = <<"validate", "persist", "recommend", "aggregate">>

\* C5 amended: a run executes decode, then plan and equipment in parallel, and
\* no step after them: the decoder has finished before the planner or the
\* equipment agent starts, no agent finishes twice, and a run in which every
\* agent has finished consists of exactly these three steps, the decoder first.
C5_CodeDag ==
    /\ \A a \in {Planner, Equipment} :
          pc[a] # "idle" =>
              /\ pc[Decoder] = "done"
              /\ finished # <<>>
              /\ finished[1] = Decoder
    /\ NoDuplicates(finished)
    /\ \A i \in 1..Len(finished) : pc[finished[i]] = "done"
    /\ AllDone =>
          finished \in {<<Decoder, Planner, Equipment>>, <<Decoder, Equipment, Planner>>}

\* a finished run in which the equipment agent, tool call included, was done
\* before the planner, both started after the decoder
C5_Witness ==
    /\ AllDone
    /\ finished = <<Decoder, Equipment, Planner>>
    /\ op = "call"
    /\ session["workout_planned"] # Absent
    /\ session["equipment_planned"] # Absent

\* C9: while decoder_output is not the complete JSON with all four fields,
\* neither the planner nor the equipment agent does its work: the tool is not
\* called and neither workout_planned nor equipment_planned is produced.
C9_ExecutionGate ==
    ~Complete(session["decoder_output"]) =>
        /\ session["workout_planned"] = Absent
        /\ session["equipment_planned"] = Absent
        /\ op = "none"

\* the session right after the decoder
AfterDecoder ==
    SaveOutput([k \in OutputKeys |-> Absent], workout_decoder_output_key,
               llm.decoder_reply)

\* the planner run on its own, from start to finish
RunPlannerAlone(sess) ==
    SaveOutput(sess, workout_planner_output_key, PlannerReply(sess["decoder_output"]))

\* the equipment agent run on its own, from start to finish
RunEquipmentAlone(sess) ==
    LET d == sess["decoder_output"]
        res == IF EquipmentCallsTool(d) THEN equipment_selector(file, d.muscle)
               ELSE NoResult
    IN  IF EquipmentCallsTool(d) /\ res.raised # "none"
        THEN [failed |-> TRUE, session |-> sess]
        ELSE [failed |-> FALSE,
              session |-> SaveOutput(sess, equipments_agent_output_key,
                                     EquipmentReply(d, res))]

PlannerThenEquipment(sess) == RunEquipmentAlone(RunPlannerAlone(sess)).session

EquipmentThenPlanner(sess) ==
    LET e == RunEquipmentAlone(sess) IN
    IF e.failed THEN e.session ELSE RunPlannerAlone(e.session)

\* C10: whatever the interleaving of the planner and the equipment agent, the
\* run ends with the decoder_output, workout_planned and equipment_planned
\* that running the two one after the other gives, in either order.
C10_NonInterference ==
    (RunEnded /\ pc[Decoder] = "done") =>
        /\ session = PlannerThenEquipment(AfterDecoder)
        /\ session = EquipmentThenPlanner(AfterDecoder)

\* The same for the runs whose tool call returns: the exception of the tool
\* is the only source of the divergence.
NonInterferenceWhenToolReturns ==
    (RunEnded /\ ~Aborted) =>
        /\ session = PlannerThenEquipment(AfterDecoder)
        /\ session = EquipmentThenPlanner(AfterDecoder)

----------------------------------------------------------------------------
(* Claims about the history file *)

\* C7: starting from an absent or empty history that only append writes,
\* load returns exactly the entries appended so far, in the order they were
\* appended.
C7_AppendLoadRoundTrip ==
    (hop = "load" /\ intact) => loaded_history = appended

\* three appends, the first two different, then a load
C7_Witness ==
    /\ hop = "load"
    /\ intact
    /\ Len(loaded_history) = 3
    /\ loaded_history[1] # loaded_history[2]
    /\ loaded_history = appended

\* the lines the filter must collect from one entry, written out
ExpectedLines(e) ==
    CASE e.workout = WorkoutA -> <<<<"e", "x", "e", "r", "c", "i", "s", "e", " ", "a">>>>
      [] e.workout = WorkoutB -> <<<<"-", " ", "b">>>>
      [] e.workout = WorkoutC -> <<<<"a", "-", "b">>>>

\* C8: the filter's output is the collected lines of the last 3 entries of
\* the history (of all entries when there are fewer), in order; replacing any
\* earlier entry does not change it; it is empty when the file is absent or
\* cannot be parsed.
C8_FilterReadsLastThree ==
    hop = "filter" =>
        LET h == Load(history_file)
            n == Len(h)
        IN  /\ (~history_file.exists \/ ~ParseArray(history_file.text).ok) => avoid = <<>>
            /\ n = 0 => avoid = <<>>
            /\ n = 1 => avoid = ExpectedLines(h[1])
            /\ n = 2 => avoid = ExpectedLines(h[1]) \o ExpectedLines(h[2])
            /\ n >= 3 => avoid = ExpectedLines(h[n - 2]) \o ExpectedLines(h[n - 1])
                                 \o ExpectedLines(h[n])
            /\ \A i \in 1..(n - 3) : \A e \in Entries :
                  FilterHistory([h EXCEPT ![i] = e]) = avoid

\* a history of 5 entries whose first two entries have lines the filter would
\* collect, and an output that has none of them
C8_Witness ==
    /\ hop = "filter"
    /\ intact
    /\ Len(appended) = 5
    /\ appended[1].workout = WorkoutA
    /\ appended[2].workout = WorkoutB
    /\ appended[3].workout = WorkoutC
    /\ appended[4].workout = WorkoutC
    /\ appended[5].workout = WorkoutC
    /\ avoid = <<<<"a", "-", "b">>, <<"a", "-", "b">>, <<"a", "-", "b">>>>

====
